---------------------------- MODULE Spec2Model ----------------------------
(***************************************************************************)
(* The page-summary service of servers/gateway/handlers/summary.go:        *)
(* SummaryHandler fetches a page, extractSummary scans the tokens of its   *)
(* head and accumulates a PageSummary, and the handler answers with JSON   *)
(* or with an error.                                                       *)
(*                                                                         *)
(* A Go string is a sequence of one-character strings, so that prefix      *)
(* tests, splitting, integer parsing and URL resolution are computed and   *)
(* not assumed.                                                            *)
(***************************************************************************)
EXTENDS Integers, Sequences, FiniteSets, TLC

(***************************************************************************)
(* String literals of the source.                                          *)
(***************************************************************************)
S_meta == <<"m", "e", "t", "a">>
S_title == <<"t", "i", "t", "l", "e">>
S_link == <<"l", "i", "n", "k">>
S_head == <<"h", "e", "a", "d">>
S_property == <<"p", "r", "o", "p", "e", "r", "t", "y">>
S_name == <<"n", "a", "m", "e">>
S_content == <<"c", "o", "n", "t", "e", "n", "t">>
S_rel == <<"r", "e", "l">>
S_href == <<"h", "r", "e", "f">>
S_type == <<"t", "y", "p", "e">>
S_alt == <<"a", "l", "t">>
S_sizes == <<"s", "i", "z", "e", "s">>
S_og_type == <<"o", "g", ":", "t", "y", "p", "e">>
S_og_url == <<"o", "g", ":", "u", "r", "l">>
S_og_title == <<"o", "g", ":", "t", "i", "t", "l", "e">>
S_og_site_name == <<"o", "g", ":", "s", "i", "t", "e", "_", "n", "a", "m", "e">>
S_og_description == <<"o", "g", ":", "d", "e", "s", "c", "r", "i", "p", "t", "i", "o", "n">>
S_description == <<"d", "e", "s", "c", "r", "i", "p", "t", "i", "o", "n">>
S_author == <<"a", "u", "t", "h", "o", "r">>
S_keywords == <<"k", "e", "y", "w", "o", "r", "d", "s">>
S_og_image == <<"o", "g", ":", "i", "m", "a", "g", "e">>
S_og_image_colon == <<"o", "g", ":", "i", "m", "a", "g", "e", ":">>
S_og_image_secure_url == <<"o", "g", ":", "i", "m", "a", "g", "e", ":", "s", "e", "c", "u", "r", "e", "_", "u", "r", "l">>
S_og_image_type == <<"o", "g", ":", "i", "m", "a", "g", "e", ":", "t", "y", "p", "e">>
S_og_image_width == <<"o", "g", ":", "i", "m", "a", "g", "e", ":", "w", "i", "d", "t", "h">>
S_og_image_height == <<"o", "g", ":", "i", "m", "a", "g", "e", ":", "h", "e", "i", "g", "h", "t">>
S_og_image_alt == <<"o", "g", ":", "i", "m", "a", "g", "e", ":", "a", "l", "t">>
S_icon == <<"i", "c", "o", "n">>
S_any == <<"a", "n", "y">>
S_http == <<"h", "t", "t", "p">>
S_x == <<"x">>
S_comma == <<",">>
S_space == <<" ">>
S_empty == <<>>

(***************************************************************************)
(* The functions of package strings and strconv that the source calls.     *)
(***************************************************************************)
\* strings.HasPrefix(s, prefix)
HasPrefix(s, prefix) ==
    /\ Len(s) >= Len(prefix)
    /\ SubSeq(s, 1, Len(prefix)) = prefix

\* strings.IndexAny(s, chars): the index (from 0) of the first character of s
\* that is one of chars, or -1.
IndexAny(s, chars) ==
    LET hits == {i \in 1..Len(s) : \E j \in 1..Len(chars) : s[i] = chars[j]}
    IN  IF hits = {} THEN -1
        ELSE (CHOOSE i \in hits : \A k \in hits : i <= k) - 1

\* strings.Replace(s, old, "", -1) for a one-character old: every occurrence
\* of the character is removed.
RECURSIVE RemoveAll(_, _)
RemoveAll(s, old) ==
    IF s = <<>> THEN <<>>
    ELSE IF <<Head(s)>> = old THEN RemoveAll(Tail(s), old)
    ELSE <<Head(s)>> \o RemoveAll(Tail(s), old)

\* strings.Split(s, sep) for a one-character sep: the pieces between the
\* separators, in order; always at least one piece.
RECURSIVE Split(_, _)
Split(s, sep) ==
    LET i == IndexAny(s, sep)
    IN  IF i = -1 THEN <<s>>
        ELSE <<SubSeq(s, 1, i)>> \o Split(SubSeq(s, i + 2, Len(s)), sep)

Digits == <<"0", "1", "2", "3", "4", "5", "6", "7", "8", "9">>

IsDigit(c) == \E d \in 1..Len(Digits) : Digits[d] = c

DigitVal(c) == (CHOOSE d \in 1..Len(Digits) : Digits[d] = c) - 1

RECURSIVE DecimalVal(_)
DecimalVal(s) ==
    IF s = <<>> THEN 0
    ELSE DecimalVal(SubSeq(s, 1, Len(s) - 1)) * 10 + DigitVal(s[Len(s)])

\* The greatest int.  The type int is taken 32 bits wide, as on a 32-bit
\* build; on a 64-bit build the bounds are 2^63 - 1 and -2^63, and Atoi
\* treats a number beyond them in the same way.
MaxInt == 2147483647

\* The digits of a number without its leading zeros.
RECURSIVE StripZeros(_)
StripZeros(s) == IF s # <<>> /\ s[1] = "0" THEN StripZeros(Tail(s)) ELSE s

\* The number of the digits sig, without leading zeros, is an int.
fitsInt(sig, negative) ==
    \/ Len(sig) < 10
    \/ /\ Len(sig) = 10
       /\ \/ DecimalVal(SubSeq(sig, 1, 9)) < MaxInt \div 10
          \/ /\ DecimalVal(SubSeq(sig, 1, 9)) = MaxInt \div 10
             /\ DigitVal(sig[10]) <= (MaxInt % 10) + (IF negative THEN 1 ELSE 0)

\* The int of the digits sig, with its sign.
intOf(sig, negative) ==
    IF sig = <<>> THEN 0
    ELSE IF negative
    THEN (0 - DecimalVal(SubSeq(sig, 1, Len(sig) - 1))) * 10 - DigitVal(sig[Len(sig)])
    ELSE DecimalVal(sig)

\* strconv.ParseInt on digits: a number that is no int gives the nearest
\* int together with a range error.
atoiRange(sig, negative) ==
    IF fitsInt(sig, negative) THEN [val |-> intOf(sig, negative), err |-> FALSE]
    ELSE [val |-> IF negative THEN 0 - MaxInt - 1 ELSE MaxInt, err |-> TRUE]

\* strconv.Atoi, after the sign: at least one decimal digit, and nothing
\* else; on a syntax error the value returned with the error is 0.
atoiDigits(body, negative) ==
    IF body = <<>> \/ \E i \in 1..Len(body) : ~IsDigit(body[i])
    THEN [val |-> 0, err |-> TRUE]
    ELSE atoiRange(StripZeros(body), negative)

\* strconv.Atoi(s): an optional sign and decimal digits.
Atoi(s) ==
    IF s # <<>> /\ s[1] \in {"+", "-"} THEN atoiDigits(Tail(s), s[1] = "-")
    ELSE atoiDigits(s, FALSE)

(***************************************************************************)
(* Package net/url, as far as resolveURL uses it: Parse, ResolveReference  *)
(* and String, for strings of lower-case letters, digits and the           *)
(* characters : / . - _ + (no query, fragment, user info or escapes).      *)
(***************************************************************************)
Letters ==
    {"a", "b", "c", "d", "e", "f", "g", "h", "i", "j", "k", "l", "m",
     "n", "o", "p", "q", "r", "s", "t", "u", "v", "w", "x", "y", "z"}

\* strings.Join(elems, "/")
RECURSIVE JoinSlash(_)
JoinSlash(elems) ==
    IF elems = <<>> THEN <<>>
    ELSE IF Len(elems) = 1 THEN elems[1]
    ELSE elems[1] \o <<"/">> \o JoinSlash(Tail(elems))

\* strings.LastIndex(s, "/"), counted from 0; -1 when there is none.
LastSlash(s) ==
    LET hits == {i \in 1..Len(s) : s[i] = "/"}
    IN  IF hits = {} THEN -1
        ELSE (CHOOSE i \in hits : \A k \in hits : i >= k) - 1

\* url.getScheme, once the scan has stopped at index stop (0: at the end of
\* the string): [err, scheme, rest].
schemeAt(raw, stop) ==
    IF stop = 0 \/ raw[stop] # ":"
    THEN [err |-> FALSE, scheme |-> <<>>, rest |-> raw]
    ELSE IF stop = 1 THEN [err |-> TRUE, scheme |-> <<>>, rest |-> <<>>]
    ELSE [err |-> FALSE, scheme |-> SubSeq(raw, 1, stop - 1),
          rest |-> SubSeq(raw, stop + 1, Len(raw))]

\* url.getScheme(raw).  The scan passes over letters and, after the first
\* character, digits and + - .  and stops at the first other character: a
\* colon there ends the scheme (in first place it is "missing protocol
\* scheme"), anything else means there is no scheme.
getScheme(raw) ==
    LET stops == {i \in 1..Len(raw) :
                     /\ raw[i] \notin Letters
                     /\ i = 1 \/ ~(IsDigit(raw[i]) \/ raw[i] \in {"+", "-", "."})}
    IN  schemeAt(raw, IF stops = {} THEN 0
                      ELSE CHOOSE i \in stops : \A k \in stops : i <= k)

EmptyURL == [Scheme |-> <<>>, Opaque |-> <<>>, Host |-> <<>>, Path |-> <<>>]

\* url.parseHost, for a host without brackets: a colon starts a port, which
\* must be all digits.
HostError(host) ==
    LET i == IndexAny(host, <<":">>)
    IN  /\ i # -1
        /\ \E k \in (i + 2)..Len(host) : ~IsDigit(host[k])

\* The authority and the path of url.parse: host is the text between // and
\* the next slash.
parseAuthority(scheme, host, path) ==
    IF HostError(host) THEN [err |-> TRUE, url |-> EmptyURL]
    ELSE [err |-> FALSE,
          url |-> [Scheme |-> scheme, Opaque |-> <<>>, Host |-> host, Path |-> path]]

splitAuthority(scheme, afterAu, cut) ==
    IF cut = -1 THEN parseAuthority(scheme, afterAu, <<>>)
    ELSE parseAuthority(scheme, SubSeq(afterAu, 1, cut),
                        SubSeq(afterAu, cut + 1, Len(afterAu)))

\* url.parse after getScheme.
parseRest(scheme, rest) ==
    IF ~HasPrefix(rest, <<"/">>) /\ scheme # <<>>
    THEN [err |-> FALSE, url |-> [EmptyURL EXCEPT !.Scheme = scheme, !.Opaque = rest]]
    ELSE IF ~HasPrefix(rest, <<"/">>) /\ IndexAny(Split(rest, <<"/">>)[1], <<":">>) # -1
    THEN [err |-> TRUE, url |-> EmptyURL]
    ELSE IF /\ HasPrefix(rest, <<"/", "/">>)
            /\ (scheme # <<>> \/ ~HasPrefix(rest, <<"/", "/", "/">>))
    THEN splitAuthority(scheme, SubSeq(rest, 3, Len(rest)),
                        IndexAny(SubSeq(rest, 3, Len(rest)), <<"/">>))
    ELSE [err |-> FALSE,
          url |-> [Scheme |-> scheme, Opaque |-> <<>>, Host |-> <<>>, Path |-> rest]]

parseScheme(sch) ==
    IF sch.err THEN [err |-> TRUE, url |-> EmptyURL]
    ELSE parseRest(sch.scheme, sch.rest)

\* url.Parse(raw): [err, url]; with err the *URL returned is nil.
ParseURL(raw) == parseScheme(getScheme(raw))

\* The dot-segment pass of url.resolvePath over the elements of the path.
RECURSIVE RemoveDots(_, _)
RemoveDots(src, dst) ==
    IF src = <<>> THEN dst
    ELSE IF Head(src) = <<".">> THEN RemoveDots(Tail(src), dst)
    ELSE IF Head(src) = <<".", ".">>
         THEN RemoveDots(Tail(src),
                         IF dst = <<>> THEN dst ELSE SubSeq(dst, 1, Len(dst) - 1))
    ELSE RemoveDots(Tail(src), Append(dst, Head(src)))

\* url.resolvePath, from the elements src of the merged path on.
joinPath(src, joined) ==
    <<"/">> \o (IF HasPrefix(joined, <<"/">>) THEN Tail(joined) ELSE joined)

cleanPath(src) ==
    joinPath(src, JoinSlash(IF src[Len(src)] = <<".">> \/ src[Len(src)] = <<".", ".">>
                            THEN Append(RemoveDots(src, <<>>), <<>>)
                            ELSE RemoveDots(src, <<>>)))

mergedPath(full) == IF full = <<>> THEN <<>> ELSE cleanPath(Split(full, <<"/">>))

\* url.resolvePath(base, ref)
resolvePath(base, ref) ==
    mergedPath(IF ref = <<>> THEN base
               ELSE IF ref[1] # "/"
                    THEN SubSeq(base, 1, LastSlash(base) + 1) \o ref
               ELSE ref)

\* (*URL).ResolveReference(ref), both URLs non-nil.
ResolveReference(u, ref) ==
    IF ref.Scheme # <<>> \/ ref.Host # <<>>
    THEN [ref EXCEPT !.Scheme = IF ref.Scheme = <<>> THEN u.Scheme ELSE ref.Scheme,
                     !.Path = resolvePath(ref.Path, <<>>)]
    ELSE IF ref.Opaque # <<>>
    THEN [Scheme |-> u.Scheme, Opaque |-> ref.Opaque, Host |-> <<>>, Path |-> <<>>]
    ELSE [Scheme |-> u.Scheme, Opaque |-> <<>>, Host |-> u.Host,
          Path |-> resolvePath(u.Path, ref.Path)]

\* (*URL).String(), from the text before the path on: a relative path whose
\* first segment holds a colon is written with ./ before it.
writePath(before, path, colon) ==
    IF before = <<>> /\ colon # -1 /\ IndexAny(SubSeq(path, 1, colon), <<"/">>) = -1
    THEN <<".", "/">> \o path
    ELSE before \o path

\* (*URL).String()
URLString(u) ==
    IF u.Opaque # <<>>
    THEN (IF u.Scheme # <<>> THEN u.Scheme \o <<":">> ELSE <<>>) \o u.Opaque
    ELSE writePath((IF u.Scheme # <<>> THEN u.Scheme \o <<":">> ELSE <<>>)
                   \o (IF (u.Scheme # <<>> \/ u.Host # <<>>)
                          /\ (u.Host # <<>> \/ u.Path # <<>>)
                       THEN <<"/", "/">> ELSE <<>>)
                   \o u.Host
                   \o (IF u.Path # <<>> /\ u.Path[1] # "/" /\ u.Host # <<>>
                       THEN <<"/">> ELSE <<>>),
                   u.Path, IndexAny(u.Path, <<":">>))

\* bURL.ResolveReference(lURL).String(), each URL as url.Parse returned it.
resolveParsed(bURL, lURL) ==
    IF lURL.err \/ (bURL.err /\ lURL.url.Scheme = <<>>)
    THEN [panic |-> TRUE, val |-> <<>>]
    ELSE [panic |-> FALSE, val |-> URLString(ResolveReference(bURL.url, lURL.url))]

\* resolveURL(base, loc): [panic, val].  The errors of url.Parse are dropped,
\* so a string that does not parse leaves a nil *URL: ResolveReference
\* dereferences ref at once, and the receiver as soon as ref has no scheme.
resolveURL(base, loc) == resolveParsed(ParseURL(base), ParseURL(loc))

(***************************************************************************)
(* The data model: PreviewImage and PageSummary.  A nil *PreviewImage is   *)
(* the empty sequence and a non-nil one a sequence of one record; the      *)
(* images slice holds the records its pointers refer to, since no other    *)
(* reference to them outlives a loop iteration.                            *)
(***************************************************************************)
\* &PreviewImage{}
EmptyImage ==
    [URL |-> <<>>, SecureURL |-> <<>>, Type |-> <<>>,
     Width |-> 0, Height |-> 0, Alt |-> <<>>]

\* &PageSummary{}
EmptySummary ==
    [Type |-> <<>>, URL |-> <<>>, Title |-> <<>>, SiteName |-> <<>>,
     Description |-> <<>>, Author |-> <<>>, Keywords |-> <<>>,
     Icon |-> <<>>, Images |-> <<>>]

(***************************************************************************)
(* html.Token: Type, Data (the tag name, or the text) and Attr, the        *)
(* attributes in the order of the tag.                                     *)
(***************************************************************************)
Attribute(key, val) == [Key |-> key, Val |-> val]

StartTag(data, attr) == [Type |-> "StartTag", Data |-> data, Attr |-> attr]

SelfClosingTag(data, attr) == [Type |-> "SelfClosingTag", Data |-> data, Attr |-> attr]

EndTag(data) == [Type |-> "EndTag", Data |-> data, Attr |-> <<>>]

TextToken(data) == [Type |-> "Text", Data |-> data, Attr |-> <<>>]

CommentToken(data) == [Type |-> "Comment", Data |-> data, Attr |-> <<>>]

ErrorToken == [Type |-> "Error", Data |-> <<>>, Attr |-> <<>>]

\* getAttr(token, attr): [val, found]: the value of the first attribute with
\* that key, or the empty string and an error.
getAttr(token, attr) ==
    LET hits == {i \in 1..Len(token.Attr) : token.Attr[i].Key = attr}
    IN  IF hits = {} THEN [val |-> <<>>, found |-> FALSE]
        ELSE [val |-> token.Attr[CHOOSE i \in hits : \A k \in hits : i <= k].Val,
              found |-> TRUE]

(***************************************************************************)
(* buildImage and buildIcon.  Each returns [panic, image]: panic is a      *)
(* run-time fault of the Go code (a nil dereference in resolveURL, an      *)
(* index out of range), which unwinds the handler.                         *)
(***************************************************************************)
\* image.URL = cont, cont as resolveURL returned it
setImageURL(image, res) ==
    IF res.panic THEN [panic |-> TRUE, image |-> image]
    ELSE [panic |-> FALSE, image |-> [image EXCEPT !.URL = res.val]]

\* image.SecureURL = resolveURL(pageURL, cont)
setSecureURL(image, res) ==
    IF res.panic THEN [panic |-> TRUE, image |-> image]
    ELSE [panic |-> FALSE, image |-> [image EXCEPT !.SecureURL = res.val]]

\* buildImage(prop, pageURL, image, cont).  The source tests og:image and
\* then the chain of sub-properties; no property passes both.
buildImage(prop, pageURL, image, cont) ==
    IF prop = S_og_image
    THEN setImageURL(image, IF ~HasPrefix(cont, S_http) THEN resolveURL(pageURL, cont)
                            ELSE [panic |-> FALSE, val |-> cont])
    ELSE IF prop = S_og_image_secure_url
    THEN setSecureURL(image, resolveURL(pageURL, cont))
    ELSE IF prop = S_og_image_type
    THEN [panic |-> FALSE, image |-> [image EXCEPT !.Type = cont]]
    ELSE IF prop = S_og_image_width
    THEN [panic |-> FALSE, image |-> [image EXCEPT !.Width = Atoi(cont).val]]
    ELSE IF prop = S_og_image_height
    THEN [panic |-> FALSE, image |-> [image EXCEPT !.Height = Atoi(cont).val]]
    ELSE IF prop = S_og_image_alt
    THEN [panic |-> FALSE, image |-> [image EXCEPT !.Alt = cont]]
    ELSE [panic |-> FALSE, image |-> image]

\* A faulty reading: the first piece as the width, the second as the height.
sizesSwapped(sizeSlice) ==
    IF Len(sizeSlice) < 2
    THEN [panic |-> TRUE, Height |-> 0, Width |-> Atoi(sizeSlice[1]).val]
    ELSE [panic |-> FALSE, Height |-> Atoi(sizeSlice[2]).val,
          Width |-> Atoi(sizeSlice[1]).val]

\* temp.Height, _ = strconv.Atoi(sizeSlice[0]); temp.Width, _ = ...(sizeSlice[1]):
\* the second piece is read whatever the number of pieces.
sizesOf(sizeSlice) ==
    IF Len(sizeSlice) < 2
    THEN [panic |-> TRUE, Height |-> Atoi(sizeSlice[1]).val, Width |-> 0]
    ELSE [panic |-> FALSE, Height |-> Atoi(sizeSlice[1]).val,
          Width |-> Atoi(sizeSlice[2]).val]

\* The sizes attribute of buildIcon: [panic, Height, Width].  The first piece
\* is the height and the second the width.
iconSizes(sizes) ==
    IF sizes = S_any \/ sizes = S_empty
    THEN [panic |-> FALSE, Height |-> 0, Width |-> 0]
    ELSE sizesOf(Split(sizes, S_x))

\* The icon of a link with rel=icon, from the resolved href and the sizes.
iconOf(res, typ, alt, sz) ==
    IF res.panic THEN [panic |-> TRUE, image |-> EmptyImage]
    ELSE [panic |-> sz.panic,
          image |-> [EmptyImage EXCEPT !.URL = res.val, !.Alt = alt, !.Type = typ,
                                       !.Height = sz.Height, !.Width = sz.Width]]

\* href as buildIcon stores it
iconHref(href, pageURL) ==
    IF ~HasPrefix(href, S_http) THEN resolveURL(pageURL, href)
    ELSE [panic |-> FALSE, val |-> href]

\* buildIcon(token, pageURL)
buildIcon(token, pageURL) ==
    IF getAttr(token, S_rel).val # S_icon THEN [panic |-> FALSE, image |-> EmptyImage]
    ELSE iconOf(iconHref(getAttr(token, S_href).val, pageURL),
                getAttr(token, S_type).val, getAttr(token, S_alt).val,
                iconSizes(getAttr(token, S_sizes).val))

(***************************************************************************)
(* The body of the loop of extractSummary, one operator per group of       *)
(* statements, in the order of the source.                                 *)
(***************************************************************************)
\* A faulty store: the first writer wins, a field once set is kept.
keepOpenGraph(summary, prop, cont) ==
    IF prop = S_og_type /\ summary.Type = S_empty THEN [summary EXCEPT !.Type = cont]
    ELSE IF prop = S_og_url /\ summary.URL = S_empty THEN [summary EXCEPT !.URL = cont]
    ELSE IF prop = S_og_title /\ summary.Title = S_empty THEN [summary EXCEPT !.Title = cont]
    ELSE IF prop = S_og_site_name /\ summary.SiteName = S_empty THEN [summary EXCEPT !.SiteName = cont]
    ELSE summary

\* og:type, og:url, og:title, og:site_name
setOpenGraph(summary, prop, cont) ==
    IF prop = S_og_type THEN [summary EXCEPT !.Type = cont]
    ELSE IF prop = S_og_url THEN [summary EXCEPT !.URL = cont]
    ELSE IF prop = S_og_title THEN [summary EXCEPT !.Title = cont]
    ELSE IF prop = S_og_site_name THEN [summary EXCEPT !.SiteName = cont]
    ELSE summary

\* og:description, or name=description while the description is empty
setDescription(summary, prop, name, cont) ==
    IF prop = S_og_description THEN [summary EXCEPT !.Description = cont]
    ELSE IF name = S_description /\ summary.Description = S_empty
         THEN [summary EXCEPT !.Description = cont]
    ELSE summary

\* name=author
setAuthor(summary, name, cont) ==
    IF name = S_author THEN [summary EXCEPT !.Author = cont] ELSE summary

\* A faulty store: the keywords of a tag are added to those already there.
mergeKeywords(summary, name, cont) ==
    IF name # S_keywords THEN summary
    ELSE IF IndexAny(cont, S_comma) # -1
         THEN [summary EXCEPT !.Keywords = @ \o Split(RemoveAll(cont, S_space), S_comma)]
    ELSE [summary EXCEPT !.Keywords = @ \o <<cont>>]

\* name=keywords
setKeywords(summary, name, cont) ==
    IF name # S_keywords THEN summary
    ELSE IF IndexAny(cont, S_comma) # -1
         THEN [summary EXCEPT !.Keywords = Split(RemoveAll(cont, S_space), S_comma)]
    ELSE [summary EXCEPT !.Keywords = <<cont>>]

\* A faulty store: the image built goes to the first place of the slice.
storeFirst(summary, n, built) ==
    [panic |-> built.panic, summary |-> [summary EXCEPT !.Images[1] = built.image]]

\* lastImage = buildImage(prop, pageURL, lastImage, cont): the image is
\* updated through its pointer, in place n of the slice.
storeLast(summary, n, built) ==
    [panic |-> built.panic, summary |-> [summary EXCEPT !.Images[n] = built.image]]

\* summary.Images = append(summary.Images, buildImage(...))
appendImage(summary, built) ==
    IF built.panic THEN [panic |-> TRUE, summary |-> summary]
    ELSE [panic |-> FALSE,
          summary |-> [summary EXCEPT !.Images = Append(@, built.image)]]

\* A property that starts with og:image: [panic, summary].  With the prefix
\* og:image: the last element of summary.Images is indexed, whatever the
\* length of the slice; any other property with the prefix og:image appends
\* a new image.
setImages(summary, prop, pageURL, cont) ==
    IF ~HasPrefix(prop, S_og_image) THEN [panic |-> FALSE, summary |-> summary]
    ELSE IF HasPrefix(prop, S_og_image_colon)
    THEN IF Len(summary.Images) = 0 THEN [panic |-> TRUE, summary |-> summary]
         ELSE storeLast(summary, Len(summary.Images),
                        buildImage(prop, pageURL,
                                   summary.Images[Len(summary.Images)], cont))
    ELSE appendImage(summary, buildImage(prop, pageURL, EmptyImage, cont))

\* The statements on a meta tag, from its three attributes on.
metaAttrs(summary, prop, name, cont, pageURL) ==
    setImages(setKeywords(setAuthor(setDescription(setOpenGraph(summary, prop, cont),
                                                   prop, name, cont),
                                    name, cont),
                          name, cont),
              prop, pageURL, cont)

\* if token.Data == "meta" { ... }
metaTag(summary, token, pageURL) ==
    metaAttrs(summary, getAttr(token, S_property).val, getAttr(token, S_name).val,
              getAttr(token, S_content).val, pageURL)

\* A faulty test: end tags pass as well.
IsTag(token) == token.Type \in {"StartTag", "SelfClosingTag", "EndTag"}

\* tokenType == html.StartTagToken || tokenType == html.SelfClosingTagToken
IsStart(token) == token.Type \in {"StartTag", "SelfClosingTag"}

\* A faulty test: every title tag reads ahead, whatever the title.
alwaysReadsAhead(summary, token) == IsStart(token) /\ token.Data = S_title

\* token.Data == "title" && summary.Title == "": the loop body calls
\* tokenizer.Next() a second time.
readsAhead(summary, token) ==
    IsStart(token) /\ token.Data = S_title /\ summary.Title = S_empty

\* if temp == html.TextToken { summary.Title = tokenizer.Token().Data }
titleTag(summary, ahead) ==
    IF ahead.Type = "Text" THEN [summary EXCEPT !.Title = ahead.Data] ELSE summary

\* summary.Icon = the image buildIcon returned
storeIcon(summary, built) ==
    IF built.panic THEN [panic |-> TRUE, summary |-> summary]
    ELSE [panic |-> FALSE, summary |-> [summary EXCEPT !.Icon = <<built.image>>]]

\* if token.Data == "link" { summary.Icon = buildIcon(token, pageURL) }
linkTag(summary, token, pageURL) == storeIcon(summary, buildIcon(token, pageURL))

\* A faulty test: the start tag of the head instead of its end tag.
startsHead(token) == token.Type = "StartTag" /\ token.Data = S_head

\* if tokenType == html.EndTagToken && token.Data == "head" { break }
endsHead(token) == token.Type = "EndTag" /\ token.Data = S_head

\* The end of an iteration: the test for </head>.
afterLink(link, token) ==
    [panic |-> link.panic, summary |-> link.summary,
     brk |-> ~link.panic /\ endsHead(token)]

\* The iteration from the test for a link tag on.
afterTitle(summary, token, pageURL) ==
    afterLink(IF IsStart(token) /\ token.Data = S_link
              THEN linkTag(summary, token, pageURL)
              ELSE [panic |-> FALSE, summary |-> summary],
              token)

\* The iteration from the test for a title tag on.
afterMeta(meta, token, ahead, pageURL) ==
    IF meta.panic THEN [panic |-> TRUE, summary |-> meta.summary, brk |-> FALSE]
    ELSE afterTitle(IF readsAhead(meta.summary, token)
                    THEN titleTag(meta.summary, ahead) ELSE meta.summary,
                    token, pageURL)

\* One iteration over a token that is not an ErrorToken: [panic, summary,
\* brk].  ahead is the token of the second tokenizer.Next(), read only when
\* readsAhead holds.
loopBody(summary, token, ahead, pageURL) ==
    afterMeta(IF IsStart(token) /\ token.Data = S_meta
              THEN metaTag(summary, token, pageURL)
              ELSE [panic |-> FALSE, summary |-> summary],
              token, ahead, pageURL)

(***************************************************************************)
(* The state of the service.                                               *)
(***************************************************************************)
VARIABLES
    pc,          \* where the process is: "idle", "fetch" (SummaryHandler before
                 \* fetchHTML), "scan" (in the loop of extractSummary),
                 \* "returned" (extractSummary has returned), "done" (the
                 \* handler has returned), "panicked" (the handler was unwound
                 \* by a run-time fault, which net/http recovers from),
                 \* "exited" (log.Fatalf has ended the process)
    pageURL,     \* the url query parameter of the request
    fetchResult, \* how fetchHTML ended: "none", "transport", "status",
                 \* "ctype", "ok"
    stream,      \* the response body of http.Get: "none", "open", "closed"
    tokenizer,   \* html.Tokenizer: tt (type of the last token), err, rawTag
    read,        \* the tokens tokenizer.Next() has delivered, in order
    summary,     \* the PageSummary under construction
    err,         \* the error extractSummary returned: "nil", "EOF", "other"
    response,    \* what the handler wrote to the http.ResponseWriter
    document     \* the kind of document fetched: "head", "desc", "image", "link"

vars ==
    <<pc, pageURL, fetchResult, stream, tokenizer, read, summary, err,
      response, document>>

\* The longest document, in tokens.
MaxTokens == 4

\* The page requested.
BaseURL == <<"h", "t", "t", "p", ":", "/", "/", "e", ".", "c", "o", "m", "/", "d", "/", "p">>

PageURLs == {S_empty, BaseURL}

\* A page that fetchHTML fetches, as https://1.com:80/p, and url.Parse
\* rejects: without a scheme, the first segment of the path holds a colon.
UnparsedURL == <<"1", ".", "c", "o", "m", ":", "8", "0", "/", "p">>

\* The pages requested of the server, by the kind of the documents.
PagesOf(kind) == IF kind = "unparsed" THEN PageURLs \cup {UnparsedURL} ELSE PageURLs

(***************************************************************************)
(* html.Tokenizer.  Next() returns the next token of the document, or an   *)
(* ErrorToken with Err() = io.EOF at its end or another error when the     *)
(* stream fails; the error is sticky.  After the start tag of a title      *)
(* element the tokenizer reads raw text up to the matching end tag, so the *)
(* token that follows <title> is a text token, the end tag </title> or an  *)
(* ErrorToken, and never another tag.                                      *)
(***************************************************************************)
\* html.NewTokenizer(htmlStream): tt is ErrorToken, the zero value.
NewTokenizer == [tt |-> "Error", err |-> "nil", rawTag |-> FALSE]

\* A tokenizer without the raw text of a title: any token follows any other.
FollowingAny(tz, doc) == doc

\* The tokens that may follow in the document.
Following(tz, doc) ==
    {t \in doc : tz.rawTag =>
        \/ t.Type = "Text"
        \/ t.Type = "EndTag" /\ t.Data = S_title}

\* tokenizer.Next(): the results possible, each [tok, err], after n tokens.
NextResults(tz, doc, n) ==
    IF tz.err # "nil" THEN {[tok |-> ErrorToken, err |-> tz.err]}
    ELSE {[tok |-> ErrorToken, err |-> e] : e \in {"EOF", "other"}}
         \cup {[tok |-> t, err |-> "nil"] :
                   t \in IF n < MaxTokens THEN Following(tz, doc) ELSE {}}

\* The tokenizer after Next() returned r.
Advance(r) ==
    [tt |-> r.tok.Type, err |-> r.err,
     rawTag |-> IsStart(r.tok) /\ r.tok.Data = S_title]

\* tokenizer.Err(): the error of the most recent ErrorToken.
TokenizerErr(tz) == IF tz.tt = "Error" THEN tz.err ELSE "nil"

NoResponse == [status |-> 0, kind |-> "none", body |-> <<>>]

\* http.Error(w, ..., http.StatusBadRequest)
BadRequest == [status |-> 400, kind |-> "error", body |-> <<>>]

\* json.NewEncoder(w).Encode(PageSummary)
JSONResponse(s) == [status |-> 200, kind |-> "json", body |-> <<s>>]

(***************************************************************************)
(* The documents: each specification draws the tokens of the document from *)
(* one of these sets.  Every set holds the end tag </head>.                *)
(***************************************************************************)
\* Titles, text, end tags, a tag the parser does not know, and a few meta and link tags.
HeadTokens ==
    {StartTag(S_title, <<>>),
     TextToken(<<"t">>),
     EndTag(S_title),
     EndTag(S_head),
     StartTag(<<"b", "o", "d", "y">>, <<>>),
     StartTag(S_meta, <<Attribute(S_property, S_og_title), Attribute(S_content, <<"o">>)>>),
     StartTag(S_meta, <<Attribute(S_name, S_author), Attribute(S_content, <<"a">>)>>),
     StartTag(S_link, <<Attribute(S_rel, S_icon), Attribute(S_href, <<"i", ".", "p", "n", "g">>)>>)}

\* Descriptions: og:description and name=description, with empty and non-empty content, and a tag that carries both.
DescTokens ==
    {StartTag(S_meta, <<Attribute(S_property, S_og_description), Attribute(S_content, <<>>)>>),
     StartTag(S_meta, <<Attribute(S_property, S_og_description), Attribute(S_content, <<"o">>)>>),
     StartTag(S_meta, <<Attribute(S_property, S_og_description), Attribute(S_content, <<"p">>)>>),
     StartTag(S_meta, <<Attribute(S_name, S_description), Attribute(S_content, <<>>)>>),
     StartTag(S_meta, <<Attribute(S_name, S_description), Attribute(S_content, <<"d">>)>>),
     StartTag(S_meta, <<Attribute(S_name, S_description), Attribute(S_content, <<"e">>)>>),
     StartTag(S_meta, <<Attribute(S_name, S_description), Attribute(S_property, S_og_description), Attribute(S_content, <<"b">>)>>),
     EndTag(S_head)}

\* Images: og:image, its sub-properties (one with a name attribute as well, one with an unknown suffix) and a property that only starts with og:image.
ImageTokens ==
    {StartTag(S_meta, <<Attribute(S_property, S_og_image), Attribute(S_content, <<"/", "i", ".", "p", "n", "g">>)>>),
     StartTag(S_meta, <<Attribute(S_property, S_og_image), Attribute(S_content, <<"j", ".", "p", "n", "g">>)>>),
     StartTag(S_meta, <<Attribute(S_property, S_og_image_width), Attribute(S_content, <<"1", "0", "0">>)>>),
     StartTag(S_meta, <<Attribute(S_property, S_og_image_height), Attribute(S_content, <<"2", "0", "0">>)>>),
     StartTag(S_meta, <<Attribute(S_property, S_og_image_width), Attribute(S_content, <<"w">>)>>),
     StartTag(S_meta, <<Attribute(S_property, S_og_image_alt), Attribute(S_content, <<"a">>)>>),
     StartTag(S_meta, <<Attribute(S_property, S_og_image_type), Attribute(S_content, <<"t">>)>>),
     StartTag(S_meta, <<Attribute(S_property, S_og_image_secure_url), Attribute(S_content, <<"/", "s">>)>>),
     StartTag(S_meta, <<Attribute(S_property, <<"o", "g", ":", "i", "m", "a", "g", "e", ":", "f", "o", "o">>), Attribute(S_content, <<"v">>)>>),
     StartTag(S_meta, <<Attribute(S_property, <<"o", "g", ":", "i", "m", "a", "g", "e", "s">>), Attribute(S_content, <<"k">>)>>),
     StartTag(S_meta, <<Attribute(S_property, S_og_image_alt), Attribute(S_name, S_author), Attribute(S_content, <<"b">>)>>),
     EndTag(S_head)}

\* Links: rel=icon with well-formed, malformed, literal and missing sizes, and links that are no icon.
LinkTokens ==
    {StartTag(S_link, <<Attribute(S_rel, S_icon), Attribute(S_href, <<"i", ".", "p", "n", "g">>), Attribute(S_sizes, <<"1", "6", "x", "3", "2">>)>>),
     StartTag(S_link, <<Attribute(S_rel, S_icon), Attribute(S_href, <<"/", "f">>), Attribute(S_sizes, <<"1", "6">>)>>),
     StartTag(S_link, <<Attribute(S_rel, S_icon), Attribute(S_href, <<"/", "g">>), Attribute(S_sizes, <<"b", "i", "g">>)>>),
     StartTag(S_link, <<Attribute(S_rel, S_icon), Attribute(S_href, <<"/", "h">>), Attribute(S_sizes, <<"x">>)>>),
     StartTag(S_link, <<Attribute(S_rel, S_icon), Attribute(S_href, <<"/", "a">>), Attribute(S_sizes, S_any)>>),
     StartTag(S_link, <<Attribute(S_rel, S_icon), Attribute(S_href, <<"/", "n">>)>>),
     StartTag(S_link, <<Attribute(S_rel, <<"s", "t", "y", "l", "e", "s", "h", "e", "e", "t">>), Attribute(S_href, <<"/", "s">>)>>),
     StartTag(S_link, <<Attribute(S_href, <<"/", "m">>)>>),
     EndTag(S_head)}

\* Open Graph fields: two tags for each of og:type, og:url, og:title and og:site_name, and a title element.
OgTokens ==
    {StartTag(S_meta, <<Attribute(S_property, S_og_type), Attribute(S_content, <<"a">>)>>),
     StartTag(S_meta, <<Attribute(S_property, S_og_type), Attribute(S_content, <<"b">>)>>),
     StartTag(S_meta, <<Attribute(S_property, S_og_url), Attribute(S_content, <<"u">>)>>),
     StartTag(S_meta, <<Attribute(S_property, S_og_url), Attribute(S_content, <<"v">>)>>),
     StartTag(S_meta, <<Attribute(S_property, S_og_title), Attribute(S_content, <<"T">>)>>),
     StartTag(S_meta, <<Attribute(S_property, S_og_title), Attribute(S_content, <<"U">>)>>),
     StartTag(S_meta, <<Attribute(S_property, S_og_site_name), Attribute(S_content, <<"s">>)>>),
     SelfClosingTag(S_meta, <<Attribute(S_property, S_og_site_name), Attribute(S_content, <<"r">>)>>),
     StartTag(S_title, <<>>),
     TextToken(<<"t">>),
     EndTag(S_head)}

\* Keywords: content with commas and spaces, without a comma, with a space and no comma, empty, and with an empty component.
KeywordTokens ==
    {StartTag(S_meta, <<Attribute(S_name, S_keywords), Attribute(S_content, <<"a", ",", " ", "b", ",", "c">>)>>),
     StartTag(S_meta, <<Attribute(S_name, S_keywords), Attribute(S_content, <<"s", "o", "l", "o">>)>>),
     StartTag(S_meta, <<Attribute(S_name, S_keywords), Attribute(S_content, <<"x", " ", "y">>)>>),
     StartTag(S_meta, <<Attribute(S_name, S_keywords), Attribute(S_content, <<>>)>>),
     SelfClosingTag(S_meta, <<Attribute(S_name, S_keywords), Attribute(S_content, <<" ", "p", ",", ",", "q", " ">>)>>),
     StartTag(S_meta, <<Attribute(S_name, S_author), Attribute(S_content, <<"a", ",", "b">>)>>),
     EndTag(S_head)}

\* URLs: og:image, og:image:secure_url and icon links with absolute URLs (one with dot segments), with relative references, and with relative references that begin with the letters http.
UrlTokens ==
    {StartTag(S_meta, <<Attribute(S_property, S_og_image), Attribute(S_content, <<"h", "t", "t", "p", ":", "/", "/", "c", ".", "i", "o", "/", "a">>)>>),
     StartTag(S_meta, <<Attribute(S_property, S_og_image), Attribute(S_content, <<"h", "t", "t", "p", "d", "/", "a">>)>>),
     StartTag(S_meta, <<Attribute(S_property, S_og_image), Attribute(S_content, <<"/", "i", ".", "p", "n", "g">>)>>),
     StartTag(S_meta, <<Attribute(S_property, S_og_image_secure_url), Attribute(S_content, <<"h", "t", "t", "p", "s", ":", "/", "/", "c", ".", "i", "o", "/", "b">>)>>),
     StartTag(S_meta, <<Attribute(S_property, S_og_image_secure_url), Attribute(S_content, <<"h", "t", "t", "p", "s", ":", "/", "/", "c", ".", "i", "o", "/", "a", "/", ".", ".", "/", "b">>)>>),
     StartTag(S_link, <<Attribute(S_rel, S_icon), Attribute(S_href, <<"h", "t", "t", "p", ":", "/", "/", "c", ".", "i", "o", "/", "f">>)>>),
     StartTag(S_link, <<Attribute(S_rel, S_icon), Attribute(S_href, <<"h", "t", "t", "p", "d", "/", "a">>)>>),
     SelfClosingTag(S_link, <<Attribute(S_rel, S_icon), Attribute(S_href, <<"g", ".", "i", "c", "o">>)>>),
     EndTag(S_head)}

\* Candidates that url.Parse rejects (a colon in the first segment of a relative path), next to candidates that parse.
UnparsedTokens ==
    {StartTag(S_meta, <<Attribute(S_property, S_og_image), Attribute(S_content, <<":", "a">>)>>),
     StartTag(S_meta, <<Attribute(S_property, S_og_image), Attribute(S_content, <<"/", "i", ".", "p", "n", "g">>)>>),
     StartTag(S_meta, <<Attribute(S_property, S_og_image), Attribute(S_content, <<"h", "t", "t", "p", ":", "/", "/", "c", ".", "i", "o", "/", "a">>)>>),
     StartTag(S_meta, <<Attribute(S_property, S_og_image_secure_url), Attribute(S_content, <<":", "s">>)>>),
     StartTag(S_meta, <<Attribute(S_property, S_og_image_secure_url), Attribute(S_content, <<"h", "t", "t", "p", "s", ":", "/", "/", "c", ".", "i", "o", "/", "b">>)>>),
     StartTag(S_link, <<Attribute(S_rel, S_icon), Attribute(S_href, <<":", "f">>)>>),
     SelfClosingTag(S_link, <<Attribute(S_rel, S_icon), Attribute(S_href, <<"g", ".", "i", "c", "o">>)>>),
     EndTag(S_head)}

\* html.DoctypeToken
DoctypeToken(data) == [Type |-> "Doctype", Data |-> data, Attr |-> <<>>]

\* Tokens the parser passes over (text, a comment, a doctype, end tags named as the tags it knows, a start tag of another name with the attributes of a meta tag) next to a meta, a title and a link tag.
OtherTokens ==
    {TextToken(<<"t">>),
     CommentToken(S_title),
     DoctypeToken(<<"h", "t", "m", "l">>),
     EndTag(S_meta),
     EndTag(S_link),
     EndTag(S_title),
     StartTag(<<"m", "e", "t", "a", "s">>, <<Attribute(S_property, S_og_title), Attribute(S_name, S_author), Attribute(S_content, <<"o">>)>>),
     StartTag(S_meta, <<Attribute(S_name, S_author), Attribute(S_content, <<"a">>)>>),
     StartTag(S_title, <<>>),
     SelfClosingTag(S_link, <<Attribute(S_rel, S_icon), Attribute(S_href, <<"i", ".", "p", "n", "g">>)>>),
     EndTag(S_head)}

\* Dimensions: og:image:width and og:image:height with integers, with content that is no number, with empty content, and with digits beyond every int.
NumberTokens ==
    {StartTag(S_meta, <<Attribute(S_property, S_og_image), Attribute(S_content, <<"/", "i", ".", "p", "n", "g">>)>>),
     StartTag(S_meta, <<Attribute(S_property, S_og_image_width), Attribute(S_content, <<"1", "0", "0">>)>>),
     StartTag(S_meta, <<Attribute(S_property, S_og_image_width), Attribute(S_content, <<"w">>)>>),
     StartTag(S_meta, <<Attribute(S_property, S_og_image_width), Attribute(S_content, <<>>)>>),
     StartTag(S_meta, <<Attribute(S_property, S_og_image_width), Attribute(S_content, <<"9", "9", "9", "9", "9", "9", "9", "9", "9", "9", "9", "9", "9", "9", "9", "9", "9", "9", "9", "9">>)>>),
     StartTag(S_meta, <<Attribute(S_property, S_og_image_height), Attribute(S_content, <<"2", "0", "0">>)>>),
     SelfClosingTag(S_meta, <<Attribute(S_property, S_og_image_height), Attribute(S_content, <<"-", "5">>)>>),
     StartTag(S_meta, <<Attribute(S_property, S_og_image_height), Attribute(S_content, <<"1", "x">>)>>),
     EndTag(S_head)}

\* The tokens a document of a kind may hold.
DocTokens(kind) ==
    CASE kind = "head" -> HeadTokens
      [] kind = "desc" -> DescTokens
      [] kind = "image" -> ImageTokens
      [] kind = "link" -> LinkTokens
      [] kind = "og" -> OgTokens
      [] kind = "keywords" -> KeywordTokens
      [] kind = "url" -> UrlTokens
      [] kind = "unparsed" -> UnparsedTokens
      [] kind = "other" -> OtherTokens
      [] kind = "number" -> NumberTokens

(***************************************************************************)
(* The actions.                                                            *)
(***************************************************************************)
\* SummaryHandler up to the call of fetchHTML: a request arrives; without a
\* url parameter it is answered with 400 and the handler returns.
Request(url) ==
    /\ pc \in {"idle", "done", "panicked"}
    /\ pageURL' = url
    /\ fetchResult' = "none"
    /\ stream' = "none"
    /\ tokenizer' = NewTokenizer
    /\ read' = <<>>
    /\ summary' = EmptySummary
    /\ err' = "nil"
    /\ IF Len(url) = 0
       THEN response' = BadRequest /\ pc' = "done"
       ELSE response' = NoResponse /\ pc' = "fetch"
    /\ UNCHANGED document

\* fetchHTML and the handler's test of its error.  A transport failure ends
\* the process in fetchHTML (log.Fatalf); a status >= 400 or a content type
\* other than text/html returns an error, on which the handler ends the
\* process (log.Fatalf), the body of the response still open.  Otherwise
\* extractSummary is entered: an empty summary and a new tokenizer.
Fetch(outcome) ==
    /\ pc = "fetch"
    /\ fetchResult' = outcome
    /\ stream' = IF outcome = "transport" THEN "none" ELSE "open"
    /\ pc' = IF outcome = "ok" THEN "scan" ELSE "exited"
    /\ summary' = EmptySummary
    /\ tokenizer' = NewTokenizer
    /\ UNCHANGED <<pageURL, read, err, response, document>>

\* tokenizer.Next() returned the ErrorToken r: io.EOF leaves the loop, and
\* extractSummary returns the summary with tokenizer.Err(); any other error
\* is log.Fatalf.
ErrorStep(r) ==
    /\ tokenizer' = Advance(r)
    /\ pc' = IF r.err = "EOF" THEN "returned" ELSE "exited"
    /\ err' = IF r.err = "EOF" THEN TokenizerErr(Advance(r)) ELSE err
    /\ UNCHANGED <<read, summary>>

\* tokenizer.Next() returned the token r.tok, and last is the result of the
\* last call of Next() in the iteration (r, or the token read ahead): body is
\* the outcome of the loop body.  A fault unwinds the handler; a break
\* returns the summary with tokenizer.Err().
TokenStep(r, last, body) ==
    /\ tokenizer' = Advance(last)
    /\ read' = IF last # r /\ last.tok.Type # "Error"
               THEN read \o <<r.tok, last.tok>>
               ELSE Append(read, r.tok)
    /\ summary' = body.summary
    /\ pc' = IF body.panic THEN "panicked"
             ELSE IF body.brk THEN "returned" ELSE "scan"
    /\ err' = IF ~body.panic /\ body.brk THEN TokenizerErr(Advance(last)) ELSE err

\* One iteration of the loop of extractSummary, with the return statement
\* when the loop is left.
Iterate ==
    /\ pc = "scan"
    /\ \E r \in NextResults(tokenizer, DocTokens(document), Len(read)) :
         IF r.tok.Type = "Error" THEN ErrorStep(r)
         ELSE IF readsAhead(summary, r.tok)
         THEN \E a \in NextResults(Advance(r), DocTokens(document), Len(read) + 1) :
                  TokenStep(r, a, loopBody(summary, r.tok, a.tok, pageURL))
         ELSE TokenStep(r, r, loopBody(summary, r.tok, r.tok, pageURL))
    /\ UNCHANGED <<pageURL, fetchResult, stream, response, document>>

\* SummaryHandler after extractSummary has returned: with an error it
\* answers 400 and returns; otherwise it defers resp.Close(), writes the
\* summary as JSON and returns, which runs the deferred Close.
Respond ==
    /\ pc = "returned"
    /\ IF err # "nil"
       THEN response' = BadRequest /\ UNCHANGED stream
       ELSE response' = JSONResponse(summary) /\ stream' = "closed"
    /\ pc' = "done"
    /\ UNCHANGED <<pageURL, fetchResult, tokenizer, read, summary, err, document>>

Next ==
    \/ \E url \in PagesOf(document) : Request(url)
    \/ \E outcome \in {"transport", "status", "ctype", "ok"} : Fetch(outcome)
    \/ Iterate
    \/ Respond

\* The state of the started server before its first request.
InitWith(kind) ==
    /\ pc = "idle"
    /\ pageURL = S_empty
    /\ fetchResult = "none"
    /\ stream = "none"
    /\ tokenizer = NewTokenizer
    /\ read = <<>>
    /\ summary = EmptySummary
    /\ err = "nil"
    /\ response = NoResponse
    /\ document = kind

Init == InitWith("head")

InitDesc == InitWith("desc")

InitImage == InitWith("image")

InitLink == InitWith("link")

Spec == Init /\ [][Next]_vars

SpecDesc == InitDesc /\ [][Next]_vars

SpecImage == InitImage /\ [][Next]_vars

SpecLink == InitLink /\ [][Next]_vars

InitOg == InitWith("og")

SpecOg == InitOg /\ [][Next]_vars

InitKeywords == InitWith("keywords")

SpecKeywords == InitKeywords /\ [][Next]_vars

InitUrl == InitWith("url")

SpecUrl == InitUrl /\ [][Next]_vars

InitUnparsed == InitWith("unparsed")

SpecUnparsed == InitUnparsed /\ [][Next]_vars

InitOther == InitWith("other")

SpecOther == InitOther /\ [][Next]_vars

InitNumber == InitWith("number")

SpecNumber == InitNumber /\ [][Next]_vars


(***************************************************************************)
(* What the claims speak of, read off the tokens delivered so far.         *)
(***************************************************************************)
LastRead == read[Len(read)]

IsMeta(tok) == IsStart(tok) /\ tok.Data = S_meta

IsLink(tok) == IsStart(tok) /\ tok.Data = S_link

PropertyOf(tok) == getAttr(tok, S_property).val

NameOf(tok) == getAttr(tok, S_name).val

ContentOf(tok) == getAttr(tok, S_content).val

\* The places of a sequence of tokens that satisfy Test.
Places(tokens, Test(_)) == {i \in 1..Len(tokens) : Test(tokens[i])}

Greatest(S) == CHOOSE i \in S : \A k \in S : i >= k

IsOgDescription(tok) == IsMeta(tok) /\ PropertyOf(tok) = S_og_description

IsPlainDescription(tok) ==
    IsMeta(tok) /\ PropertyOf(tok) # S_og_description /\ NameOf(tok) = S_description

IsOgImage(tok) == IsMeta(tok) /\ PropertyOf(tok) = S_og_image

IsSubProperty(tok) == IsMeta(tok) /\ HasPrefix(PropertyOf(tok), S_og_image_colon)

IsIconLink(tok) == IsLink(tok) /\ getAttr(tok, S_rel).val = S_icon

IsEndHead(tok) == tok.Type = "EndTag" /\ tok.Data = S_head

\* The parse ended at the end of the stream, not at </head>.
EndedAtEOF == tokenizer.tt = "Error" /\ tokenizer.err = "EOF"

(***************************************************************************)
(* C1.                                                                     *)
(***************************************************************************)
\* C1: when extractSummary reaches the end of the stream it returns the
\* summary with a nil error, and SummaryHandler then answers with the JSON
\* summary, not with an error response.
C1_EndOfStreamIsNoError ==
    (pc \in {"returned", "done"} /\ EndedAtEOF) =>
        /\ err = "nil"
        /\ pc = "done" => response = JSONResponse(summary)

(***************************************************************************)
(* C2.                                                                     *)
(***************************************************************************)
\* C2: when the head holds a meta tag with property og:description, the
\* description returned is the content of the last such tag, wherever the
\* name=description tags stand and also when that content is empty; without
\* such a tag it is empty or the content of a name=description tag.
C2_OpenGraphDescriptionFirst ==
    pc = "returned" =>
        IF Places(read, IsOgDescription) # {}
        THEN summary.Description =
                 ContentOf(read[Greatest(Places(read, IsOgDescription))])
        ELSE \/ summary.Description = S_empty
             \/ \E i \in Places(read, IsPlainDescription) :
                    summary.Description = ContentOf(read[i])

(***************************************************************************)
(* C3.                                                                     *)
(***************************************************************************)
\* C3: a meta tag with an og:image: sub-property that is dispatched while
\* the images list is empty never makes the parse fault; the list stays
\* empty and the parse goes on.
C3_SubPropertyBeforeImageIgnored ==
    (read # <<>> /\ IsSubProperty(LastRead) /\ Len(summary.Images) = 0) =>
        pc # "panicked"

(***************************************************************************)
(* C4.                                                                     *)
(***************************************************************************)
ImageFields == {"URL", "SecureURL", "Type", "Width", "Height", "Alt"}

\* The field of an image that a sub-property stands for; none for an
\* unknown suffix.
FieldOf(prop) ==
    CASE prop = S_og_image_secure_url -> {"SecureURL"}
      [] prop = S_og_image_type -> {"Type"}
      [] prop = S_og_image_width -> {"Width"}
      [] prop = S_og_image_height -> {"Height"}
      [] prop = S_og_image_alt -> {"Alt"}
      [] OTHER -> {}

\* The step is an iteration over one meta tag with an og:image: sub-property.
DispatchesSubProperty ==
    /\ pc = "scan"
    /\ Len(read') = Len(read) + 1
    /\ IsSubProperty(read'[Len(read')])

\* The step changes at most the field that prop stands for, in the last
\* image: the list keeps its length, every other field of every image and
\* every other field of the summary keep their values.
ChangesOnlyLastImageField(prop) ==
    /\ Len(summary'.Images) = Len(summary.Images)
    /\ \A i \in 1..Len(summary.Images) : \A f \in ImageFields :
           (i < Len(summary.Images) \/ f \notin FieldOf(prop)) =>
               summary'.Images[i][f] = summary.Images[i][f]
    /\ [summary' EXCEPT !.Images = summary.Images] = summary

\* C4 as claimed: every og:image: sub-property tag changes at most the one
\* field of the last image and nothing else of the summary.
C4_SubPropertyFrame_AsClaimed ==
    [][DispatchesSubProperty =>
           ChangesOnlyLastImageField(PropertyOf(read'[Len(read')]))]_vars

\* C4, amended: an og:image: sub-property tag whose name attribute is none
\* of description, author and keywords changes at most the one field of the
\* last image: not the length of the list, no earlier image, no other field
\* of the summary.
C4_SubPropertyFrame ==
    [][(/\ DispatchesSubProperty
        /\ NameOf(read'[Len(read')]) \notin {S_description, S_author, S_keywords})
       => ChangesOnlyLastImageField(PropertyOf(read'[Len(read')]))]_vars

\* A sub-property tag after a second og:image has set the width of the
\* second image and left the first one alone.
C4_Witness ==
    /\ pc = "scan"
    /\ Len(read) >= 3
    /\ IsSubProperty(LastRead)
    /\ NameOf(LastRead) = S_empty
    /\ Len(summary.Images) = 2
    /\ summary.Images[2].Width = 100
    /\ summary.Images[1].Width = 0

(***************************************************************************)
(* C5.                                                                     *)
(***************************************************************************)
\* The k-th place of a set of places.
Nth(S, k) == CHOOSE i \in S : Cardinality({j \in S : j < i}) = k - 1

\* C5: at every point of a parse the images list holds one entry per meta
\* tag with property og:image dispatched so far, in the order of the tags,
\* the k-th with the resolved content of the k-th tag as its url; and
\* og:image /i.png, og:image:width 100, og:image:height 200 give exactly one
\* image with the resolved url, width 100 and height 200.
C5_OneImagePerOgImageTag ==
    pc \in {"scan", "returned", "panicked"} =>
        /\ Len(summary.Images) = Cardinality(Places(read, IsOgImage))
        /\ \A k \in 1..Cardinality(Places(read, IsOgImage)) :
               /\ k <= Len(summary.Images)
               /\ summary.Images[k].URL =
                      resolveURL(pageURL,
                                 ContentOf(read[Nth(Places(read, IsOgImage), k)])).val
        /\ (/\ Len(read) = 3
            /\ IsOgImage(read[1])
            /\ PropertyOf(read[2]) = S_og_image_width
            /\ Atoi(ContentOf(read[2])).val = 100
            /\ PropertyOf(read[3]) = S_og_image_height)
           => summary.Images =
                  <<[EmptyImage EXCEPT
                        !.URL = resolveURL(pageURL, ContentOf(read[1])).val,
                        !.Width = 100,
                        !.Height = Atoi(ContentOf(read[3])).val]>>

(***************************************************************************)
(* C6.                                                                     *)
(***************************************************************************)
\* C6: at the end of a parse the icon is the record built from the most
\* recent link tag with rel=icon, whatever other link tags came after it.
C6_IconIsLastIconLink ==
    (pc = "returned" /\ Places(read, IsIconLink) # {}) =>
        summary.Icon =
            <<buildIcon(read[Greatest(Places(read, IsIconLink))], pageURL).image>>

(***************************************************************************)
(* C7.                                                                     *)
(***************************************************************************)
\* sizes is neither empty nor the literal any, and is not two integers
\* around one x.
MalformedSizes(sizes) ==
    /\ sizes \notin {S_empty, S_any}
    /\ \/ Len(Split(sizes, S_x)) # 2
       \/ \E k \in 1..Len(Split(sizes, S_x)) : Atoi(Split(sizes, S_x)[k]).err

\* C7: a link tag with rel=icon and malformed sizes does not make the parse
\* fail: the icon is produced all the same.
C7_MalformedSizesAbsorbed ==
    (/\ read # <<>>
     /\ IsIconLink(LastRead)
     /\ MalformedSizes(getAttr(LastRead, S_sizes).val))
    => (pc # "panicked" /\ summary.Icon # <<>>)

(***************************************************************************)
(* C8.                                                                     *)
(***************************************************************************)
\* C8: when fetchHTML fails, extractSummary is not called, the client gets
\* an error response and no summary, and the service keeps running.
C8_FetchErrorIsAnswered ==
    fetchResult \in {"transport", "status", "ctype"} =>
        /\ pc # "exited"
        /\ read = <<>>
        /\ response.kind = "error"

(***************************************************************************)
(* C9.                                                                     *)
(***************************************************************************)
\* C9: the parse stops at the first end tag </head>.  The iteration that
\* reads it leaves the summary as the tokens before it made it and returns
\* it with no error; the end tag is the last token read, and no iteration
\* goes on after it.
C9_StopsAtEndOfHead ==
    [][(pc = "scan" /\ Places(read', IsEndHead) # {}) =>
           /\ Places(read', IsEndHead) = {Len(read')}
           /\ Len(read') = Len(read) + 1
           /\ summary' = summary
           /\ pc' = "returned"
           /\ err' = "nil"]_vars

\* A parse that has accumulated a title and an author has stopped at </head>.
C9_Witness ==
    /\ pc = "returned"
    /\ Len(read) = MaxTokens
    /\ IsEndHead(LastRead)
    /\ summary.Title # S_empty
    /\ summary.Author # S_empty

(***************************************************************************)
(* C10.                                                                    *)
(***************************************************************************)
\* C10: after a successful fetch, the document stream is closed when the
\* handler returns, on every path.
C10_StreamClosedOnReturn ==
    (pc = "done" /\ fetchResult = "ok") => stream = "closed"

(***************************************************************************)
(* C11.                                                                    *)
(***************************************************************************)
\* The places of the meta tags read with property p.
PlacesOfProperty(p) ==
    {i \in 1..Len(read) : IsMeta(read[i]) /\ PropertyOf(read[i]) = p}

\* The content of the last meta tag read with property p; empty with none.
LastOf(p) ==
    IF PlacesOfProperty(p) = {} THEN S_empty
    ELSE ContentOf(read[Greatest(PlacesOfProperty(p))])

IsTitleTag(tok) == IsStart(tok) /\ tok.Data = S_title

OgFields == {"Type", "URL", "Title", "SiteName"}

\* The field of the summary an Open Graph property stands for.
OgField(prop) ==
    CASE prop = S_og_type -> {"Type"}
      [] prop = S_og_url -> {"URL"}
      [] prop = S_og_title -> {"Title"}
      [] prop = S_og_site_name -> {"SiteName"}
      [] OTHER -> {}

\* After the parse each field is the content of the last tag for it.
LastWriterWins ==
    pc = "returned" =>
        /\ summary.Type = LastOf(S_og_type)
        /\ summary.URL = LastOf(S_og_url)
        /\ summary.SiteName = LastOf(S_og_site_name)
        /\ (Places(read, IsTitleTag) = {} /\ PlacesOfProperty(S_og_title) # {})
               => summary.Title = LastOf(S_og_title)

\* An iteration over a meta tag for one of the four properties leaves the
\* other three fields as they were.
OgTagKeepsOthers ==
    (/\ pc = "scan"
     /\ Len(read') = Len(read) + 1
     /\ IsMeta(read'[Len(read')])
     /\ OgField(PropertyOf(read'[Len(read')])) # {})
    => \A f \in OgFields \ OgField(PropertyOf(read'[Len(read')])) :
           summary'[f] = summary[f]

\* C11: for og:type, og:url, og:title and og:site_name the last writer
\* wins: after the parse type, url and siteName are the content of the last
\* tag with that property, and so is the title when the head has an og:title
\* tag and no title tag; a tag for one of the four leaves the other three
\* fields unchanged.
C11_LastWriterWins == []LastWriterWins /\ [][OgTagKeepsOthers]_vars

\* A head with two og:type tags of different content and an og:title tag,
\* parsed to its end: the type is the second content.
C11_Witness ==
    /\ pc = "returned"
    /\ PlacesOfProperty(S_og_type) = {1, 2}
    /\ ContentOf(read[1]) # ContentOf(read[2])
    /\ summary.Type = ContentOf(read[2])
    /\ PlacesOfProperty(S_og_title) = {3}
    /\ summary.Title = ContentOf(read[3])
    /\ summary.Title # S_empty

(***************************************************************************)
(* C12.                                                                    *)
(***************************************************************************)
IsKeywords(tok) == IsMeta(tok) /\ NameOf(tok) = S_keywords

\* The elements of a list with a comma between every two of them.
RECURSIVE JoinComma(_)
JoinComma(list) ==
    IF Len(list) = 0 THEN <<>>
    ELSE IF Len(list) = 1 THEN list[1]
    ELSE list[1] \o S_comma \o JoinComma(Tail(list))

NotSpace(c) == <<c>> # S_space

NotComma(c) == <<c>> # S_comma

\* list is what the content cont of a keywords tag stands for: with a comma
\* in cont, the pieces of cont without its spaces between the commas (no
\* piece holds a comma, and the pieces joined by commas give cont without
\* its spaces back); without a comma, cont alone and verbatim.
KeywordsOf(cont, list) ==
    IF SelectSeq(cont, NotComma) # cont
    THEN /\ Len(list) >= 2
         /\ \A k \in 1..Len(list) : SelectSeq(list[k], NotComma) = list[k]
         /\ JoinComma(list) = SelectSeq(cont, NotSpace)
    ELSE list = <<cont>>

\* C12: the keywords are those of the last name=keywords tag read, never
\* merged with those of an earlier tag: content with a comma gives the
\* pieces between the commas of the content without its spaces ("a, b,c"
\* gives a, b, c), content without a comma gives the content alone,
\* verbatim.
C12_KeywordsReplaced ==
    pc \in {"scan", "returned"} =>
        IF Places(read, IsKeywords) = {} THEN summary.Keywords = <<>>
        ELSE /\ KeywordsOf(ContentOf(read[Greatest(Places(read, IsKeywords))]),
                           summary.Keywords)
             /\ ContentOf(read[Greatest(Places(read, IsKeywords))])
                    = <<"a", ",", " ", "b", ",", "c">>
                => summary.Keywords = << <<"a">>, <<"b">>, <<"c">> >>

\* The tag with content "a, b,c" after another keywords tag, parsed to the
\* end of the head: the keywords are a, b, c.
C12_Witness ==
    /\ pc = "returned"
    /\ Cardinality(Places(read, IsKeywords)) = 2
    /\ Len(ContentOf(read[1])) > 0
    /\ summary.Keywords = << <<"a">>, <<"b">>, <<"c">> >>

(***************************************************************************)
(* C13.                                                                    *)
(***************************************************************************)
\* sizes has the form AxB, A and B integers.
IntegerSizes(sizes) ==
    /\ sizes \notin {S_empty, S_any}
    /\ Len(Split(sizes, S_x)) = 2
    /\ \A k \in 1..2 : ~Atoi(Split(sizes, S_x)[k]).err

IsAbsolute(u) == ~ParseURL(u).err /\ ParseURL(u).url.Scheme # <<>>

\* The url a candidate is to be stored as: itself when absolute, resolved
\* against the page otherwise.
StoredAs(u, stored) ==
    IF IsAbsolute(u) THEN stored = u
    ELSE stored = resolveURL(pageURL, u).val

\* C14: the url stored for an og:image, og:image:secure_url or icon href
\* with an absolute URL as content is that URL unchanged, and the url stored
\* for an og:image or an icon href with any other content, one that begins
\* with the letters http included, is the content resolved against the page.
C14_ResolutionOnEveryCandidate ==
    (pc = "scan" /\ read # <<>>) =>
        /\ IsOgImage(LastRead) =>
               StoredAs(ContentOf(LastRead), summary.Images[Len(summary.Images)].URL)
        /\ (/\ IsMeta(LastRead)
            /\ PropertyOf(LastRead) = S_og_image_secure_url
            /\ IsAbsolute(ContentOf(LastRead)))
           => summary.Images[Len(summary.Images)].SecureURL = ContentOf(LastRead)
        /\ IsIconLink(LastRead) =>
               StoredAs(getAttr(LastRead, S_href).val, summary.Icon[1].URL)

(***************************************************************************)
(* C15.                                                                    *)
(***************************************************************************)
\* C15: a tokenizer error other than end-of-stream is the error result of
\* that one parse: the process goes on, and the handler answers the request
\* with an error response.
C15_TokenizerErrorIsReported ==
    (fetchResult = "ok" /\ tokenizer.err = "other") =>
        /\ pc # "exited"
        /\ pc \in {"returned", "done"} => err = "other"
        /\ pc = "done" => response.kind = "error"

(***************************************************************************)
(* C16.                                                                    *)
(***************************************************************************)
\* url.Parse rejects the page or the candidate.
Unparsed(candidate) == ParseURL(pageURL).err \/ ParseURL(candidate).err

\* C16: resolveURL never aborts the parse: an og:image content or an icon
\* href that does not parse as a URL, or one met on a page whose own URL
\* does not parse, is stored as it is, and the parse goes on.
C16_ResolverNeverAborts ==
    (pc \in {"scan", "panicked"} /\ read # <<>>) =>
        /\ (IsOgImage(LastRead) /\ Unparsed(ContentOf(LastRead))) =>
               /\ pc = "scan"
               /\ summary.Images[Len(summary.Images)].URL = ContentOf(LastRead)
        /\ (IsIconLink(LastRead) /\ Unparsed(getAttr(LastRead, S_href).val)) =>
               /\ pc = "scan"
               /\ summary.Icon # <<>>
               /\ summary.Icon[1].URL = getAttr(LastRead, S_href).val

(***************************************************************************)
(* C17.                                                                    *)
(***************************************************************************)
\* A meta tag whose property starts with og:image and is neither og:image
\* nor an og:image: sub-property.
IsImageLookalike(tok) ==
    /\ IsMeta(tok)
    /\ HasPrefix(PropertyOf(tok), S_og_image)
    /\ PropertyOf(tok) # S_og_image
    /\ ~HasPrefix(PropertyOf(tok), S_og_image_colon)

\* C17: an image is appended only by a meta tag whose property is exactly
\* og:image: a tag whose property merely starts with og:image (og:images)
\* leaves the images list unchanged, and every step that lengthens the list
\* is the dispatch of an og:image tag.
C17_AppendOnlyForOgImage ==
    [][(pc = "scan" /\ Len(read') = Len(read) + 1) =>
           /\ IsImageLookalike(read'[Len(read')]) => summary'.Images = summary.Images
           /\ Len(summary'.Images) > Len(summary.Images) => IsOgImage(read'[Len(read')])]_vars

(***************************************************************************)
(* C18.                                                                    *)
(***************************************************************************)
\* The step is an iteration over a title tag.
DispatchesTitle ==
    /\ pc = "scan"
    /\ Len(read') > Len(read)
    /\ IsTitleTag(read'[Len(read) + 1])

\* The iteration called tokenizer.Next() once more, and the title is the
\* text of the token it returned if that is a text token, and stays empty
\* if it is another token or an error.
ReadOneAhead ==
    /\ Len(read') <= Len(read) + 2
    /\ IF Len(read') = Len(read) + 2
       THEN summary'.Title = IF read'[Len(read')].Type = "Text"
                             THEN read'[Len(read')].Data ELSE S_empty
       ELSE tokenizer'.tt = "Error" /\ summary'.Title = S_empty

\* The iteration called tokenizer.Next() for the title tag alone, and the
\* title is as it was.
ReadNoneAhead ==
    /\ Len(read') = Len(read) + 1
    /\ tokenizer' = Advance([tok |-> read'[Len(read')], err |-> "nil"])
    /\ summary'.Title = summary.Title

\* C18: a title tag read while the title is empty consumes exactly one more
\* token, whose text becomes the title if and only if it is a text token;
\* read while the title is not empty it consumes no token and leaves the
\* title as it is.  In both cases no other field of the summary changes.
C18_TitleLookAhead ==
    [][DispatchesTitle =>
           /\ IF summary.Title = S_empty THEN ReadOneAhead ELSE ReadNoneAhead
           /\ [summary' EXCEPT !.Title = summary.Title] = summary]_vars

\* A title element has set the title, and a second title tag has been read
\* after it: the title is still the text of the first.
C18_Witness ==
    /\ pc = "scan"
    /\ Len(read) = 4
    /\ IsTitleTag(read[1])
    /\ read[2].Type = "Text"
    /\ IsTitleTag(read[4])
    /\ summary.Title = read[2].Data
    /\ tokenizer.tt = "StartTag"

(***************************************************************************)
(* C19.                                                                    *)
(***************************************************************************)
\* A start or self-closing tag named meta, title or link.
IsRecognized(tok) ==
    /\ tok.Type \in {"StartTag", "SelfClosingTag"}
    /\ tok.Data \in {S_meta, S_title, S_link}

\* An iteration over any other token leaves the summary as it was.
OtherTokenKeepsSummary ==
    (/\ pc = "scan"
     /\ Len(read') > Len(read)
     /\ ~IsRecognized(read'[Len(read) + 1]))
    => summary' = summary

\* A head that ends before any recognized tag gives the default summary and
\* no error.
DefaultWithoutTags ==
    (pc = "returned" /\ read # <<>> /\ IsEndHead(LastRead)
        /\ Places(read, IsRecognized) = {})
    => (summary = EmptySummary /\ err = "nil")

\* C19: only start and self-closing tags named meta, title or link change
\* the summary: text, comments, end tags and start tags of any other name
\* leave every field unchanged, and a head that reaches </head> before any
\* recognized tag yields the default summary with no error.
C19_OnlyRecognizedTagsWrite == []DefaultWithoutTags /\ [][OtherTokenKeepsSummary]_vars

\* A head of tokens the parser passes over, parsed to its end after a
\* summary field was set: the field is kept.
C19_Witness ==
    /\ pc = "returned"
    /\ Len(read) = MaxTokens
    /\ IsRecognized(read[1])
    /\ Cardinality(Places(read, IsRecognized)) = 1
    /\ read[2].Type = "EndTag"
    /\ read[3].Type \in {"Comment", "StartTag"}
    /\ summary # EmptySummary

(***************************************************************************)
(* C20.                                                                    *)
(***************************************************************************)
\* The step is an iteration over an og:image:width or og:image:height tag,
\* with an image in the list.
DispatchesDimension ==
    /\ DispatchesSubProperty
    /\ PropertyOf(read'[Len(read')]) \in {S_og_image_width, S_og_image_height}
    /\ Len(summary.Images) > 0

DimensionOf(prop) == IF prop = S_og_image_width THEN "Width" ELSE "Height"

\* The int a dimension is to be after a tag with content cont: the integer
\* cont denotes, and zero when cont denotes no int.
DimensionAfter(cont) == IF Atoi(cont).err THEN 0 ELSE Atoi(cont).val

\* C20: an og:image:width or og:image:height tag raises no error; it sets
\* that field of the last image to the integer of its content (100 for
\* "100") and to zero when the content is not a valid integer, and changes
\* no other field of the image.
C20_DimensionParsed ==
    [][DispatchesDimension =>
           /\ pc' = "scan"
           /\ summary'.Images =
                  [summary.Images EXCEPT ![Len(summary.Images)] =
                      [@ EXCEPT ![DimensionOf(PropertyOf(read'[Len(read')]))] =
                          DimensionAfter(ContentOf(read'[Len(read')]))]]
           /\ ContentOf(read'[Len(read')]) = <<"1", "0", "0">> =>
                  summary'.Images[Len(summary.Images)].Width = 100]_vars

(***************************************************************************)
(* C21.                                                                    *)
(***************************************************************************)
\* The stream failed with an error other than end-of-stream: the document
\* is no finite sequence of tokens.
StreamFailed == tokenizer.err = "other"

\* An iteration of the scan either returns, and then at end-of-stream or at
\* the end tag </head>, or goes on scanning with at least one more token of
\* the document read and none taken back; the scan is left in no other way.
ScanAdvances ==
    (pc = "scan" /\ ~StreamFailed') =>
        /\ pc' \in {"scan", "returned"}
        /\ Len(read') <= MaxTokens
        /\ SubSeq(read', 1, Len(read)) = read
        /\ pc' = "scan" => Len(read') > Len(read)
        /\ pc' = "returned" =>
               \/ tokenizer'.err = "EOF"
               \/ IsEndHead(read'[Len(read')]) /\ Len(read') = Len(read) + 1

\* C21: the parse of a finite token sequence terminates in the return of
\* extractSummary: every iteration reads new tokens, each once, until the
\* parse returns, also when the look-ahead of a title tag meets
\* end-of-stream, and it returns only through </head> or end-of-stream.
C21_ParseTerminates == [][ScanAdvances]_vars

(***************************************************************************)
(* C22.                                                                    *)
(***************************************************************************)
IsAuthor(tok) == IsMeta(tok) /\ NameOf(tok) = S_author

\* Every token an iteration reads is the token the loop body is applied to,
\* but for one token read ahead after a title tag, and that one is no meta
\* and no link tag; a meta or link tag has the effect of the statements on it.
TagsDispatched ==
    (pc = "scan" /\ Len(read') > Len(read)) =>
        /\ Len(read') <= Len(read) + 2
        /\ Len(read') = Len(read) + 2 =>
               /\ IsTitleTag(read'[Len(read) + 1])
               /\ ~IsMeta(read'[Len(read')])
               /\ ~IsLink(read'[Len(read')])
        /\ IsMeta(read'[Len(read) + 1]) =>
               summary' = metaTag(summary, read'[Len(read) + 1], pageURL).summary
        /\ IsLink(read'[Len(read) + 1]) =>
               summary' = linkTag(summary, read'[Len(read) + 1], pageURL).summary

\* The tags read so far have had their effect: the author is that of the
\* last name=author tag, the title that of the last og:title tag with content,
\* and the icon is there when the last link tag read is an icon.
TagsHaveEffect ==
    pc \in {"scan", "returned"} =>
        /\ Places(read, IsAuthor) # {} =>
               summary.Author = ContentOf(read[Greatest(Places(read, IsAuthor))])
        /\ LastOf(S_og_title) # S_empty => summary.Title = LastOf(S_og_title)
        /\ (Places(read, IsLink) # {} /\ IsIconLink(read[Greatest(Places(read, IsLink))]))
               => summary.Icon # <<>>

=============================================================================
